---- MODULE Spec2Model ----
(***************************************************************************)
(* tidal-mcp: the pagination aggregator (tidal_api/utils.py,               *)
(* fetch_all_items, with the fetch_page wrappers of the routes) and the    *)
(* concurrent fan-out collector (tidal_api/routes/tracks.py,               *)
(* get_batch_track_recommendations).                                       *)
(*                                                                         *)
(* Spec      : one invocation of fetch_all_items, one loop iteration per   *)
(*             step, against honest, arbitrary and offset-less sources.    *)
(* SpecBatch : one invocation of get_batch_track_recommendations, the seed *)
(*             tasks finishing and being merged in every possible order.   *)
(* SpecBound : one call of bound_limit.                                    *)
(* SpecTwice : fetch_all_items, or get_batch_track_recommendations, invoked*)
(*             again with the same arguments after it returned.            *)
(*                                                                         *)
(* The layers around them:                                                 *)
(* SpecProxy, SpecProxyFair : the stdin proxy thread of start_mcp.py and   *)
(*             the reader of fd 0 (with weak fairness of both in the       *)
(*             second).                                                    *)
(* SpecTool  : one call of an MCP tool wrapped by requires_tidal_auth      *)
(*             (mcp_server/server.py), its make_tidal_request and the      *)
(*             Flask route wrapped by requires_tidal_auth (tidal_api/app). *)
(* SpecRemove: one call of remove_tracks (tidal_api/routes/playlists.py).  *)
(* SpecRecommend : one call of recommend_tracks (mcp_server).              *)
(***************************************************************************)
EXTENDS Integers, Sequences, FiniteSets, TLC

VARIABLES
    \* ---- fetch_all_items -------------------------------------------------
    route,          \* who calls fetch_all_items: "direct" or one of the routes
    source,         \* the paged source behind fetch_func: [kind, size, kw_ok]
    has_max,        \* max_items is not None
    max_items,      \* the cap (meaningful when has_max)
    page_size,      \* page_size argument
    all_items,      \* the accumulator (utils.py:49)
    offset,         \* the offset counter (utils.py:50)
    pc,             \* "loop" | "done" | "raised"
    result,         \* the returned list (utils.py:83)
    calls,          \* log of the fetch_func calls: <<[limit, offset], ...>>
    pages,          \* log of what each call gave: <<[ok, items, vend], ...>>
    \* ---- get_batch_track_recommendations ---------------------------------
    track_ids,          \* the seed argument: [is_list, seeds]
    remove_duplicates,  \* remove_duplicates argument
    limit_per_track,    \* limit_per_track (after bound_limit once started)
    futures,            \* seed index -> [state, exc, value]; state is
                        \* "pending" | "running" | "finished"
    fetched,            \* seed index -> what the vendor gave for that seed
    order,              \* seed indexes in the order the merge loop took them
    completed,          \* seed indexes in the order their tasks finished
    snapshot,           \* the futures found finished when as_completed was called
    all_recommendations,\* the output list (tracks.py:94)
    seen_track_ids,     \* the seen-identifier set (tracks.py:95)
    bpc,                \* "start" | "submitted" | "merging" | "done"
    bstatus,            \* HTTP status of the answer, 0 while none
    \* ---- bound_limit ------------------------------------------------------
    bound_call,         \* one call of bound_limit: [limit, max_n, pc, value]
    \* ---- repeated invocation ----------------------------------------------
    invocation,         \* number of the running invocation (1, 2, ...)
    previous,           \* what the previous invocation returned
    \* ---- start_mcp.py: the stdin proxy ------------------------------------
    px_pc,              \* "read" | "write" | "close_w" | "close_r" | "exit"
    data,               \* the chunk os.read returned last
    stdin_read,         \* all bytes read from real_stdin_fd so far
    pipe,               \* all bytes written to w_fd so far
    w_fd,               \* "open" | "closed": the write end of the pipe
    real_stdin_fd,      \* "open" | "closed"
    w_closes,           \* number of os.close(w_fd) calls made
    stopped,            \* why the loop was left: "no" | "eof" | "oserror"
    fd0_got,            \* number of bytes the reader of fd 0 has received
    fd0_eof,            \* the reader of fd 0 has seen EOF
    \* ---- an MCP tool call and the Flask route behind it -------------------
    method,             \* the method argument of make_tidal_request
    session_file_exists,\* SESSION_FILE.exists() in the Flask process
    login_success,      \* what login_session_file_auto returns there
    tpc,                \* "wrapper" | "body" | "sent" | "answered" |
                        \* "mapped" | "returned" | "raised"
    auth_status,        \* outcome of the wrapper's auth status request
    response,           \* the HTTP response: [code, body, by]
    requests_sent,      \* requests make_tidal_request has sent
    body_runs,          \* times the tool body was entered
    handler_runs,       \* times the Flask route handler was entered
    vendor_calls,       \* vendor calls made by the route handler
    request_result,     \* status of make_tidal_request's result
    tool_result,        \* status of the result the wrapper returned
    \* ---- remove_tracks ----------------------------------------------------
    rm_playlist,        \* [found, tracks]: the playlist at the vendor
    rm_original,        \* its tracks when the call started
    rm_mode,            \* "track_ids" | "indices" | "none"
    rm_arg,             \* the argument: [is_list, items]
    rm_todo,            \* what the loop still has to go through
    rm_attempts,        \* log of the removal calls: <<[arg, ok, removed], ...>>
    removed_count,      \* playlists.py:175
    rm_pc,              \* "start" | "loop" | "done"
    rm_response,        \* [code, tracks_removed]
    \* ---- recommend_tracks -------------------------------------------------
    rec_track_ids,      \* the track_ids argument: [kind, ids]
    limit_from_favorite,\* limit_from_favorite argument
    rec_pc,             \* "auth" | "seeds" | "recommend" | "returned" | "raised"
    rec_auth,           \* outcome of the auth status request
    rec_backend,        \* what _get_tidal_recommendations returned
    favorites_fetched,  \* calls of get_favorite_tracks
    seed_track_ids,     \* the seeds handed to the backend
    rec_result          \* the returned dict: [status, seed_count, seed_track_ids, recommendations]

aggVars == <<route, source, has_max, max_items, page_size, all_items, offset,
             pc, result, calls, pages>>
batchVars == <<track_ids, remove_duplicates, limit_per_track, futures, fetched,
               order, completed, snapshot, all_recommendations, seen_track_ids,
               bpc, bstatus>>
twiceVars == <<invocation, previous>>
proxyVars == <<px_pc, data, stdin_read, pipe, w_fd, real_stdin_fd, w_closes,
               stopped, fd0_got, fd0_eof>>
toolVars == <<method, session_file_exists, login_success, tpc, auth_status,
              response, requests_sent, body_runs, handler_runs, vendor_calls,
              request_result, tool_result>>
removeVars == <<rm_playlist, rm_original, rm_mode, rm_arg, rm_todo, rm_attempts,
                removed_count, rm_pc, rm_response>>
recVars == <<rec_track_ids, limit_from_favorite, rec_pc, rec_auth, rec_backend,
             favorites_fetched, seed_track_ids, rec_result>>
layerVars == <<proxyVars, toolVars, removeVars, recVars>>
vars == <<aggVars, batchVars, bound_call, twiceVars, layerVars>>

\* what a step of fetch_all_items, and a step of the batch, leaves alone
notAggVars == <<batchVars, bound_call, twiceVars, layerVars>>
notBatchVars == <<aggVars, bound_call, twiceVars, layerVars>>

\* what a step of each of the layers leaves alone
coreVars == <<aggVars, batchVars, bound_call, twiceVars>>
notProxyVars == <<coreVars, toolVars, removeVars, recVars>>
notToolVars == <<coreVars, proxyVars, removeVars, recVars>>
notRemoveVars == <<coreVars, proxyVars, toolVars, recVars>>
notRecVars == <<coreVars, proxyVars, toolVars, removeVars>>

----------------------------------------------------------------------------
(* Bounds of the model *)

MaxSource == 3
MaxPageSize == 2
MaxCap == 3
MaxPageLen == 3
MaxArg == 5

(* Program constants *)

DefaultPageSize == 100
MaxLimit == 50
DefaultLimitPerTrack == 20

\* every loop of an in-bounds honest source ends within MaxSource + 1 calls;
\* the spec's example (3 full pages and a short one) needs 4
MaxCalls == MaxSource + 2

\* the spec's example source: 3 full pages of 100 followed by a page of 40
ExampleSize == 3 * DefaultPageSize + 40

Min(a, b) == IF a < b THEN a ELSE b
Max(a, b) == IF a > b THEN a ELSE b

Range(s) == {s[i] : i \in 1..Len(s)}

----------------------------------------------------------------------------
(* The paged source (the vendor client, or any fetch function) *)

\* the page an honest source of `size` items serves: min(limit, size - offset)
\* items, in source order; item k of the source is the integer k
HonestPage(size, limit, off) ==
    [i \in 1..Max(0, Min(limit, size - off)) |-> off + i]

\* a page of n fresh items delivered by call number c
TokenPage(c, n) == [i \in 1..n |-> <<c, i>>]

\* page lengths an arbitrary source may answer to a request for `limit`:
\* short, exactly full and over-long ones
PageLens(limit) == (0..MaxPageLen) \cup {n \in {limit - 1, limit, limit + 1} : n >= 0}

\* outcomes of one vendor call; with_kw: the offset keyword is passed
Vendor(c, limit, off, with_kw) ==
    LET o == IF with_kw THEN off ELSE 0
        fail == {[kind |-> "TypeError", items |-> <<>>], [kind |-> "Error", items |-> <<>>]}
        anyPage == {[kind |-> "page", items |-> TokenPage(c, n)] : n \in PageLens(limit)}
    IN  CASE source.kind = "honest" ->
                {[kind |-> "page", items |-> HonestPage(source.size, limit, o)]}
          [] source.kind = "any" -> anyPage \cup fail
          [] source.kind = "nooffset" ->
                IF with_kw /\ off # 0 THEN fail
                ELSE IF with_kw /\ ~source.kw_ok
                     THEN {[kind |-> "TypeError", items |-> <<>>]}
                     ELSE anyPage

\* what fetch_all_items sees of a vendor outcome: a list or an exception
AsResponse(v, trace) ==
    [ok |-> v.kind = "page", items |-> v.items, vend |-> trace]

fetch_page_Retry(c, limit, off) ==
    UNION {
        IF v1.kind = "TypeError"
        THEN {AsResponse(v2, <<v1.kind, v2.kind>>) : v2 \in Vendor(c, limit, off, FALSE)}
        ELSE {AsResponse(v1, <<v1.kind>>)}
        : v1 \in Vendor(c, limit, off, TRUE)}

\* fetch_page of get_user_tracks and of get_tracks_from_playlist: a TypeError
\* is retried without offset at offset 0 and is an empty page otherwise
fetch_page(c, limit, off) ==
    UNION {
        IF v1.kind = "TypeError"
        THEN IF off = 0
             THEN {AsResponse(v2, <<v1.kind, v2.kind>>) : v2 \in Vendor(c, limit, off, FALSE)}
             ELSE {[ok |-> TRUE, items |-> <<>>, vend |-> <<v1.kind>>]}
        ELSE {AsResponse(v1, <<v1.kind>>)}
        : v1 \in Vendor(c, limit, off, TRUE)}

\* the fetch_func handed to fetch_all_items
fetch_func(c, limit, off) ==
    IF route = "direct"
    THEN {AsResponse(v, <<v.kind>>) : v \in Vendor(c, limit, off, TRUE)}
    ELSE fetch_page(c, limit, off)

----------------------------------------------------------------------------
(* fetch_all_items *)

bound_limit_NoFloor(limit, max_n) ==
    IF limit > max_n THEN max_n ELSE limit

\* utils.py:27-34
bound_limit(limit, max_n) ==
    IF limit < 1 THEN 1 ELSE IF limit > max_n THEN max_n ELSE limit

remaining == max_items - Len(all_items)

cap_reached_Strict == has_max /\ remaining < 0

cap_reached == has_max /\ remaining <= 0

batch_size_NoCap == page_size

batch_size_Remaining == IF has_max THEN remaining ELSE page_size

batch_size == IF has_max THEN Min(page_size, remaining) ELSE page_size

TryBody_Reraise(all, off, bs, resp) ==
    IF ~resp.ok THEN [all_items |-> all, offset |-> off, pc |-> "raised"]
    ELSE IF resp.items = <<>> THEN [all_items |-> all, offset |-> off, pc |-> "done"]
    ELSE IF Len(resp.items) < bs
         THEN [all_items |-> all \o resp.items, offset |-> off, pc |-> "done"]
         ELSE [all_items |-> all \o resp.items, offset |-> off + Len(resp.items), pc |-> "loop"]

TryBody_NoShortBreak(all, off, bs, resp) ==
    IF ~resp.ok THEN [all_items |-> all, offset |-> off, pc |-> "done"]
    ELSE IF resp.items = <<>> THEN [all_items |-> all, offset |-> off, pc |-> "done"]
    ELSE [all_items |-> all \o resp.items, offset |-> off + Len(resp.items), pc |-> "loop"]

TryBody_ShortOrFullBreak(all, off, bs, resp) ==
    IF ~resp.ok THEN [all_items |-> all, offset |-> off, pc |-> "done"]
    ELSE IF resp.items = <<>> THEN [all_items |-> all, offset |-> off, pc |-> "done"]
    ELSE IF Len(resp.items) <= bs
         THEN [all_items |-> all \o resp.items, offset |-> off, pc |-> "done"]
         ELSE [all_items |-> all \o resp.items, offset |-> off + Len(resp.items), pc |-> "loop"]

TryBody_EmptyContinues(all, off, bs, resp) ==
    IF ~resp.ok THEN [all_items |-> all, offset |-> off, pc |-> "done"]
    ELSE IF resp.items = <<>> THEN [all_items |-> all, offset |-> off, pc |-> "loop"]
    ELSE IF Len(resp.items) < bs
         THEN [all_items |-> all \o resp.items, offset |-> off, pc |-> "done"]
         ELSE [all_items |-> all \o resp.items, offset |-> off + Len(resp.items), pc |-> "loop"]

TryBody_OffsetByBatch(all, off, bs, resp) ==
    IF ~resp.ok THEN [all_items |-> all, offset |-> off, pc |-> "done"]
    ELSE IF resp.items = <<>> THEN [all_items |-> all, offset |-> off, pc |-> "done"]
    ELSE IF Len(resp.items) < bs
         THEN [all_items |-> all \o resp.items, offset |-> off, pc |-> "done"]
         ELSE [all_items |-> all \o resp.items, offset |-> off + bs, pc |-> "loop"]

TryBody_RetriesOnError(all, off, bs, resp) ==
    IF ~resp.ok THEN [all_items |-> all, offset |-> off, pc |-> "loop"]
    ELSE IF resp.items = <<>> THEN [all_items |-> all, offset |-> off, pc |-> "done"]
    ELSE IF Len(resp.items) < bs
         THEN [all_items |-> all \o resp.items, offset |-> off, pc |-> "done"]
         ELSE [all_items |-> all \o resp.items, offset |-> off + Len(resp.items), pc |-> "loop"]

TryBody_DropsShort(all, off, bs, resp) ==
    IF ~resp.ok THEN [all_items |-> all, offset |-> off, pc |-> "done"]
    ELSE IF resp.items = <<>> THEN [all_items |-> all, offset |-> off, pc |-> "done"]
    ELSE IF Len(resp.items) < bs
         THEN [all_items |-> all, offset |-> off, pc |-> "done"]
         ELSE [all_items |-> all \o resp.items, offset |-> off + Len(resp.items), pc |-> "loop"]

\* the try block of one iteration (utils.py:63-81) on the response of the
\* fetch: the accumulator, the offset and whether the loop goes on
TryBody(all, off, bs, resp) ==
    IF ~resp.ok THEN [all_items |-> all, offset |-> off, pc |-> "done"]
    ELSE IF resp.items = <<>> THEN [all_items |-> all, offset |-> off, pc |-> "done"]
    ELSE IF Len(resp.items) < bs
         THEN [all_items |-> all \o resp.items, offset |-> off, pc |-> "done"]
         ELSE [all_items |-> all \o resp.items, offset |-> off + Len(resp.items), pc |-> "loop"]

\* utils.py:54-57 and 83: the cap is reached, the loop breaks and the
\* accumulator is returned
LoopCapBreak ==
    /\ pc = "loop"
    /\ cap_reached
    /\ pc' = "done"
    /\ result' = all_items
    /\ UNCHANGED <<route, source, has_max, max_items, page_size, all_items,
                   offset, calls, pages>>
    /\ UNCHANGED notAggVars

\* utils.py:58-81 (and 83 when the loop breaks): one fetch and its handling
LoopFetch ==
    /\ pc = "loop"
    /\ ~cap_reached
    /\ Len(calls) < MaxCalls
    /\ \E resp \in fetch_func(Len(calls) + 1, batch_size, offset) :
          LET r == TryBody(all_items, offset, batch_size, resp) IN
          /\ all_items' = r.all_items
          /\ offset' = r.offset
          /\ pc' = r.pc
          /\ result' = IF r.pc = "done" THEN r.all_items ELSE result
          /\ calls' = Append(calls, [limit |-> batch_size, offset |-> offset])
          /\ pages' = Append(pages, resp)
    /\ UNCHANGED <<route, source, has_max, max_items, page_size>>
    /\ UNCHANGED notAggVars

----------------------------------------------------------------------------
(* get_batch_track_recommendations *)

SeedIds == {"A", "B"}

\* what track.get_track_radio may deliver for a seed: the identifiers of the
\* recommended tracks, in the vendor's order
RecLists == {<<>>, <<1, 1>>, <<1, 2, 3>>, <<2, 3, 4>>}

\* outcomes of the vendor calls of one task: the list, or an exception raised
\* by session.track, by get_track_radio or while formatting (items: what the
\* vendor had delivered before the exception)
SeedOutcomes ==
    {[ok |-> TRUE, items |-> l] : l \in RecLists}
    \cup {[ok |-> FALSE, items |-> <<4, 5>>]}

\* format_track_data(rec, source_track_id = track_id) over a list
FormatAll(ids, seed) ==
    [k \in 1..Len(ids) |-> [id |-> ids[k], source_track_id |-> seed]]

task_Propagates(seed, v) ==
    IF v.ok
    THEN [state |-> "finished", exc |-> FALSE, value |-> FormatAll(v.items, seed)]
    ELSE [state |-> "finished", exc |-> TRUE, value |-> <<>>]

\* the nested get_track_recommendations (tracks.py:80-92): the future of a
\* task whose vendor calls had outcome v
get_track_recommendations(seed, v) ==
    IF v.ok
    THEN [state |-> "finished", exc |-> FALSE, value |-> FormatAll(v.items, seed)]
    ELSE [state |-> "finished", exc |-> FALSE, value |-> <<>>]

RECURSIVE MergeInto_NoSeen(_, _, _, _)
MergeInto_NoSeen(out, seen, recs, dedupe) ==
    IF recs = <<>> THEN [out |-> out, seen |-> seen]
    ELSE IF dedupe /\ Head(recs).id \in seen
         THEN MergeInto_NoSeen(out, seen, Tail(recs), dedupe)
         ELSE MergeInto_NoSeen(Append(out, Head(recs)), seen, Tail(recs), dedupe)

RECURSIVE MergeInto_Prepends(_, _, _, _)
MergeInto_Prepends(out, seen, recs, dedupe) ==
    IF recs = <<>> THEN [out |-> out, seen |-> seen]
    ELSE IF dedupe /\ Head(recs).id \in seen
         THEN MergeInto_Prepends(out, seen, Tail(recs), dedupe)
         ELSE MergeInto_Prepends(<<Head(recs)>> \o out, seen \cup {Head(recs).id},
                                 Tail(recs), dedupe)

RECURSIVE MergeInto_AlwaysDedupe(_, _, _, _)
MergeInto_AlwaysDedupe(out, seen, recs, dedupe) ==
    IF recs = <<>> THEN [out |-> out, seen |-> seen]
    ELSE IF Head(recs).id \in seen
         THEN MergeInto_AlwaysDedupe(out, seen, Tail(recs), dedupe)
         ELSE MergeInto_AlwaysDedupe(Append(out, Head(recs)), seen \cup {Head(recs).id},
                                     Tail(recs), dedupe)

RECURSIVE MergeInto(_, _, _, _)
\* the inner loop of the merge (tracks.py:107-114) over one task's result
MergeInto(out, seen, recs, dedupe) ==
    IF recs = <<>> THEN [out |-> out, seen |-> seen]
    ELSE IF dedupe /\ Head(recs).id \in seen
         THEN MergeInto(out, seen, Tail(recs), dedupe)
         ELSE MergeInto(Append(out, Head(recs)), seen \cup {Head(recs).id},
                        Tail(recs), dedupe)

seeds == track_ids.seeds

max_workers_One == IF seeds = <<>> THEN 0 ELSE 1

\* ThreadPoolExecutor(max_workers=len(track_ids)) (tracks.py:98)
max_workers == Len(seeds)

running == {i \in DOMAIN futures : futures[i].state = "running"}

\* the futures as_completed may hand over next: first the ones that had
\* finished when it was called, in no particular order (it keeps them in a
\* set), then the others in the order they finish
AsCompletedNext ==
    LET left == snapshot \ Range(order)
        later == SelectSeq(completed, LAMBDA i : i \notin Range(order))
    IN  IF left # {} THEN left
        ELSE IF later # <<>> THEN {Head(later)} ELSE {}

\* tracks.py:74-102: validation, bound_limit, the pool and the submission of
\* one task per seed; ThreadPoolExecutor(max_workers=0) raises ValueError,
\* which the outer except turns into the 500 answer
BatchStart ==
    /\ bpc = "start"
    /\ IF ~track_ids.is_list
       THEN /\ bstatus' = 400
            /\ bpc' = "done"
            /\ UNCHANGED <<limit_per_track, futures, fetched>>
       ELSE /\ limit_per_track' = bound_limit(limit_per_track, MaxLimit)
            /\ IF max_workers <= 0
               THEN /\ bstatus' = 500
                    /\ bpc' = "done"
                    /\ UNCHANGED <<futures, fetched>>
               ELSE /\ futures' = [i \in 1..Len(seeds) |->
                                     [state |-> "pending", exc |-> FALSE, value |-> <<>>]]
                    /\ fetched' = [i \in 1..Len(seeds) |-> [ok |-> FALSE, items |-> <<>>]]
                    /\ bpc' = "submitted"
                    /\ UNCHANGED bstatus
    /\ UNCHANGED <<track_ids, remove_duplicates, order, completed, snapshot,
                   all_recommendations, seen_track_ids>>
    /\ UNCHANGED notBatchVars

\* a worker thread of the pool takes the oldest queued task; the pool has at
\* most max_workers threads
TaskStart(i) ==
    /\ bpc \in {"submitted", "merging"}
    /\ futures[i].state = "pending"
    /\ \A j \in 1..(i - 1) : futures[j].state # "pending"
    /\ Cardinality(running) < max_workers
    /\ futures' = [futures EXCEPT ![i].state = "running"]
    /\ UNCHANGED <<track_ids, remove_duplicates, limit_per_track, fetched, order,
                   completed, snapshot, all_recommendations, seen_track_ids,
                   bpc, bstatus>>
    /\ UNCHANGED notBatchVars

TaskFinish_SelfMerge(i) ==
    /\ bpc \in {"submitted", "merging"}
    /\ futures[i].state = "running"
    /\ \E v \in SeedOutcomes :
          LET f == get_track_recommendations(seeds[i], v)
              m == MergeInto(all_recommendations, seen_track_ids, f.value,
                             remove_duplicates) IN
          /\ fetched' = [fetched EXCEPT ![i] = v]
          /\ futures' = [futures EXCEPT ![i] = [f EXCEPT !.value = <<>>]]
          /\ all_recommendations' = m.out
          /\ seen_track_ids' = m.seen
    /\ completed' = Append(completed, i)
    /\ UNCHANGED <<track_ids, remove_duplicates, limit_per_track, order, snapshot,
                   bpc, bstatus>>
    /\ UNCHANGED notBatchVars

\* tracks.py:80-92 in a worker thread: the task of seed i runs to its end
TaskFinish(i) ==
    /\ bpc \in {"submitted", "merging"}
    /\ futures[i].state = "running"
    /\ \E v \in SeedOutcomes :
          /\ fetched' = [fetched EXCEPT ![i] = v]
          /\ futures' = [futures EXCEPT ![i] = get_track_recommendations(seeds[i], v)]
    /\ completed' = Append(completed, i)
    /\ UNCHANGED <<track_ids, remove_duplicates, limit_per_track, order, snapshot,
                   all_recommendations, seen_track_ids, bpc, bstatus>>
    /\ UNCHANGED notBatchVars

\* tracks.py:104: as_completed is called and notes the futures that have
\* finished already (an empty future set ends the loop at once)
AsCompleted ==
    /\ bpc = "submitted"
    /\ snapshot' = {i \in DOMAIN futures : futures[i].state = "finished"}
    /\ bpc' = IF futures = <<>> THEN "done" ELSE "merging"
    /\ bstatus' = IF futures = <<>> THEN 200 ELSE bstatus
    /\ UNCHANGED <<track_ids, remove_duplicates, limit_per_track, futures, fetched,
                   order, completed, all_recommendations, seen_track_ids>>
    /\ UNCHANGED notBatchVars

\* tracks.py:104-118: as_completed hands over a finished future that was not
\* merged yet; its result is merged, and after the last one the answer is made
MergeOne(i) ==
    /\ bpc = "merging"
    /\ futures[i].state = "finished"
    /\ i \notin Range(order)
    /\ i \in AsCompletedNext
    /\ order' = Append(order, i)
    /\ IF futures[i].exc
       THEN /\ bstatus' = 500
            /\ bpc' = "done"
            /\ UNCHANGED <<all_recommendations, seen_track_ids>>
       ELSE LET m == MergeInto(all_recommendations, seen_track_ids,
                               futures[i].value, remove_duplicates) IN
            /\ all_recommendations' = m.out
            /\ seen_track_ids' = m.seen
            /\ bpc' = IF Len(order') = Len(seeds) THEN "done" ELSE "merging"
            /\ bstatus' = IF Len(order') = Len(seeds) THEN 200 ELSE bstatus
    /\ UNCHANGED <<track_ids, remove_duplicates, limit_per_track, futures, fetched,
                   completed, snapshot>>
    /\ UNCHANGED notBatchVars

----------------------------------------------------------------------------
(* Inputs of fetch_all_items *)

Sources ==
    {[kind |-> "honest", size |-> n, kw_ok |-> TRUE] : n \in (0..MaxSource) \cup {ExampleSize}}
    \cup {[kind |-> "any", size |-> 0, kw_ok |-> TRUE]}
    \cup {[kind |-> "nooffset", size |-> 0, kw_ok |-> b] : b \in BOOLEAN}

MaxItemsInputs == (0..MaxCap) \cup {DefaultPageSize + 1}

AggStart ==
    /\ all_items = <<>>
    /\ offset = 0
    /\ pc = "loop"
    /\ result = <<>>
    /\ calls = <<>>
    /\ pages = <<>>

AggInit ==
    /\ route \in {"direct", "get_user_tracks", "get_tracks_from_playlist"}
    /\ source \in Sources
    \* a source without the offset keyword is only usable through fetch_page
    /\ (route = "direct" => source.kw_ok)
    /\ has_max \in BOOLEAN
    /\ (route = "get_user_tracks" => has_max)
    /\ max_items \in IF has_max THEN MaxItemsInputs ELSE {0}
    /\ page_size \in IF route = "direct"
                     THEN (1..MaxPageSize) \cup {DefaultPageSize}
                     ELSE {DefaultPageSize}
    /\ AggStart

BatchIdle ==
    /\ track_ids = [is_list |-> FALSE, seeds |-> <<>>]
    /\ remove_duplicates = TRUE
    /\ limit_per_track = DefaultLimitPerTrack
    /\ futures = <<>>
    /\ fetched = <<>>
    /\ order = <<>>
    /\ completed = <<>>
    /\ snapshot = {}
    /\ all_recommendations = <<>>
    /\ seen_track_ids = {}
    /\ bpc = "idle"
    /\ bstatus = 0

BoundIdle ==
    bound_call = [limit |-> 0, max_n |-> MaxLimit, pc |-> "idle", value |-> 0]

\* nothing was invoked before
TwiceIdle ==
    /\ invocation = 1
    /\ previous = <<>>

NoResponse == [code |-> 0, body |-> "none", by |-> "none"]

ProxyIdle ==
    /\ px_pc = "idle"
    /\ data = <<>>
    /\ stdin_read = <<>>
    /\ pipe = <<>>
    /\ w_fd = "open"
    /\ real_stdin_fd = "open"
    /\ w_closes = 0
    /\ stopped = "no"
    /\ fd0_got = 0
    /\ fd0_eof = FALSE

ToolIdle ==
    /\ method = "GET"
    /\ session_file_exists = FALSE
    /\ login_success = FALSE
    /\ tpc = "idle"
    /\ auth_status = "none"
    /\ response = NoResponse
    /\ requests_sent = 0
    /\ body_runs = 0
    /\ handler_runs = 0
    /\ vendor_calls = 0
    /\ request_result = "none"
    /\ tool_result = "none"

RemoveIdle ==
    /\ rm_playlist = [found |-> FALSE, tracks |-> <<>>]
    /\ rm_original = <<>>
    /\ rm_mode = "none"
    /\ rm_arg = [is_list |-> FALSE, items |-> <<>>]
    /\ rm_todo = <<>>
    /\ rm_attempts = <<>>
    /\ removed_count = 0
    /\ rm_pc = "idle"
    /\ rm_response = [code |-> 0, tracks_removed |-> 0]

NoResult == [status |-> "none", seed_count |-> 0, seed_track_ids |-> <<>>,
             recommendations |-> <<>>]

RecIdle ==
    /\ rec_track_ids = [kind |-> "none", ids |-> <<>>]
    /\ limit_from_favorite = DefaultLimitPerTrack
    /\ rec_pc = "idle"
    /\ rec_auth = "none"
    /\ rec_backend = [status |-> "none", recommendations |-> <<>>]
    /\ favorites_fetched = 0
    /\ seed_track_ids = <<>>
    /\ rec_result = NoResult

LayersIdle == ProxyIdle /\ ToolIdle /\ RemoveIdle /\ RecIdle

Init == AggInit /\ BatchIdle /\ BoundIdle /\ TwiceIdle /\ LayersIdle

Next == LoopCapBreak \/ LoopFetch

Spec == Init /\ [][Next]_vars

AggIdle ==
    /\ route = "direct"
    /\ source = [kind |-> "honest", size |-> 0, kw_ok |-> TRUE]
    /\ has_max = FALSE
    /\ max_items = 0
    /\ page_size = DefaultPageSize
    /\ all_items = <<>>
    /\ offset = 0
    /\ pc = "idle"
    /\ result = <<>>
    /\ calls = <<>>
    /\ pages = <<>>

MaxSeeds == 2

SeedLists == UNION {[1..n -> SeedIds] : n \in 0..MaxSeeds}

LimitInputs == {DefaultLimitPerTrack, MaxLimit + 1}

BatchInit ==
    /\ track_ids \in {[is_list |-> TRUE, seeds |-> l] : l \in SeedLists}
                     \cup {[is_list |-> FALSE, seeds |-> <<>>]}
    /\ remove_duplicates \in BOOLEAN
    /\ limit_per_track \in LimitInputs
    /\ futures = <<>>
    /\ fetched = <<>>
    /\ order = <<>>
    /\ completed = <<>>
    /\ snapshot = {}
    /\ all_recommendations = <<>>
    /\ seen_track_ids = {}
    /\ bpc = "start"
    /\ bstatus = 0

InitBatch == AggIdle /\ BatchInit /\ BoundIdle /\ TwiceIdle /\ LayersIdle

NextBatch ==
    \/ BatchStart
    \/ \E i \in DOMAIN futures : TaskStart(i)
    \/ \E i \in DOMAIN futures : TaskFinish(i)
    \/ AsCompleted
    \/ \E i \in DOMAIN futures : MergeOne(i)

SpecBatch == InitBatch /\ [][NextBatch]_vars

----------------------------------------------------------------------------
(* bound_limit as a call of its own (SpecBound) *)

LimitArgs == ((0 - MaxArg)..MaxArg)
             \cup {DefaultLimitPerTrack, 25, MaxLimit - 1, MaxLimit, MaxLimit + 1, 1000}

MaxNArgs == (1..MaxArg) \cup {MaxLimit}

BoundInit ==
    bound_call \in {[limit |-> l, max_n |-> m, pc |-> "call", value |-> 0] :
                        l \in LimitArgs, m \in MaxNArgs}

\* utils.py:27-34: the call returns the clamped limit
BoundLimit ==
    /\ bound_call.pc = "call"
    /\ bound_call' = [bound_call EXCEPT
                         !.pc = "returned",
                         !.value = bound_limit(bound_call.limit, bound_call.max_n)]
    /\ UNCHANGED <<aggVars, batchVars, twiceVars, layerVars>>

InitBound == AggIdle /\ BatchIdle /\ BoundInit /\ TwiceIdle /\ LayersIdle

NextBound == BoundLimit

SpecBound == InitBound /\ [][NextBound]_vars

----------------------------------------------------------------------------
(* A second invocation with the same arguments (SpecTwice) *)

MaxInvocations == 2

fetch_all_items_KeepsLocals(old_items, old_offset) ==
    [all_items |-> old_items, offset |-> old_offset]

\* utils.py:49-50: the accumulator and the offset are locals, bound anew to
\* [] and 0 by every call, whatever an earlier call left in its own
fetch_all_items_locals(old_items, old_offset) ==
    [all_items |-> <<>>, offset |-> 0]

batch_KeepsLocals(old_out, old_seen) ==
    [all_recommendations |-> old_out, seen_track_ids |-> old_seen]

\* tracks.py:94-95: the output list and the seen set are locals, bound anew
\* to [] and set() by every call
batch_locals(old_out, old_seen) ==
    [all_recommendations |-> <<>>, seen_track_ids |-> {}]

\* fetch_all_items has returned and is called again with the same arguments
AggCallAgain ==
    /\ pc = "done"
    /\ invocation < MaxInvocations
    /\ invocation' = invocation + 1
    /\ previous' = result
    /\ LET l == fetch_all_items_locals(all_items, offset) IN
          /\ all_items' = l.all_items
          /\ offset' = l.offset
    /\ pc' = "loop"
    /\ result' = <<>>
    /\ calls' = <<>>
    /\ pages' = <<>>
    /\ UNCHANGED <<route, source, has_max, max_items, page_size>>
    /\ UNCHANGED <<batchVars, bound_call, layerVars>>

\* get_batch_track_recommendations has answered and is requested again with
\* the same arguments
BatchCallAgain ==
    /\ bpc = "done"
    /\ invocation < MaxInvocations
    /\ invocation' = invocation + 1
    /\ previous' = all_recommendations
    /\ LET l == batch_locals(all_recommendations, seen_track_ids) IN
          /\ all_recommendations' = l.all_recommendations
          /\ seen_track_ids' = l.seen_track_ids
    /\ futures' = <<>>
    /\ fetched' = <<>>
    /\ order' = <<>>
    /\ completed' = <<>>
    /\ snapshot' = {}
    /\ bpc' = "start"
    /\ bstatus' = 0
    /\ UNCHANGED <<track_ids, remove_duplicates, limit_per_track>>
    /\ UNCHANGED <<aggVars, bound_call, layerVars>>

TwiceSeedLists == {<<>>, <<"A">>, <<"A", "B">>}

\* either fetch_all_items is called directly on an honest source, or the
\* batch route is requested with a list of seeds
InitTwice ==
    /\ \/ AggInit /\ route = "direct" /\ source.kind = "honest" /\ BatchIdle
       \/ AggIdle /\ BatchInit /\ track_ids.is_list
             /\ seeds \in TwiceSeedLists
             /\ limit_per_track = DefaultLimitPerTrack
    /\ BoundIdle /\ TwiceIdle /\ LayersIdle

NextTwice ==
    \/ LoopCapBreak
    \/ LoopFetch
    \/ AggCallAgain
    \/ BatchStart
    \/ \E i \in DOMAIN futures : TaskStart(i)
    \/ \E i \in DOMAIN futures : TaskFinish(i)
    \/ AsCompleted
    \/ \E i \in DOMAIN futures : MergeOne(i)
    \/ BatchCallAgain

SpecTwice == InitTwice /\ [][NextTwice]_vars

----------------------------------------------------------------------------
(* start_mcp.py: the stdin proxy (SpecProxy, SpecProxyFair) *)

\* bytes the MCP client sends before it closes stdin, and the longest chunk
\* one os.read delivers
MaxStdin == 3
MaxChunk == 2

Bytes == {0, 1}

\* the non-empty chunks of at most n bytes os.read may return
Chunks(n) == UNION {[1..k -> Bytes] : k \in 1..Min(MaxChunk, n)}

InitProxy ==
    /\ AggIdle /\ BatchIdle /\ BoundIdle /\ TwiceIdle
    /\ ToolIdle /\ RemoveIdle /\ RecIdle
    /\ px_pc = "read"
    /\ data = <<>>
    /\ stdin_read = <<>>
    /\ pipe = <<>>
    /\ w_fd = "open"
    /\ real_stdin_fd = "open"
    /\ w_closes = 0
    /\ stopped = "no"
    /\ fd0_got = 0
    /\ fd0_eof = FALSE

\* start_mcp.py:34-38, 40-41: os.read returns a chunk, or b'' at EOF, or
\* raises OSError; EOF and OSError leave the loop for the finally block
ProxyRead ==
    /\ px_pc = "read"
    /\ \/ \E c \in Chunks(MaxStdin - Len(stdin_read)) :
             /\ data' = c
             /\ stdin_read' = stdin_read \o c
             /\ px_pc' = "write"
             /\ UNCHANGED stopped
       \/ /\ data' = <<>>
          /\ stopped' = "eof"
          /\ px_pc' = "close_w"
          /\ UNCHANGED stdin_read
       \/ /\ stopped' = "oserror"
          /\ px_pc' = "close_w"
          /\ UNCHANGED <<data, stdin_read>>
    /\ UNCHANGED <<pipe, w_fd, real_stdin_fd, w_closes, fd0_got, fd0_eof>>
    /\ UNCHANGED notProxyVars

ProxyWrite_Twice ==
    /\ px_pc = "write"
    /\ \/ /\ pipe' = pipe \o data \o data
          /\ px_pc' = "read"
          /\ UNCHANGED stopped
       \/ /\ stopped' = "oserror"
          /\ px_pc' = "close_w"
          /\ UNCHANGED pipe
    /\ UNCHANGED <<data, stdin_read, w_fd, real_stdin_fd, w_closes, fd0_got, fd0_eof>>
    /\ UNCHANGED notProxyVars

\* start_mcp.py:39-41: os.write on the blocking pipe returns when the chunk
\* is in the pipe, or raises OSError (nothing of the chunk written), which
\* leaves the loop for the finally block
ProxyWrite ==
    /\ px_pc = "write"
    /\ \/ /\ pipe' = pipe \o data
          /\ px_pc' = "read"
          /\ UNCHANGED stopped
       \/ /\ stopped' = "oserror"
          /\ px_pc' = "close_w"
          /\ UNCHANGED pipe
    /\ UNCHANGED <<data, stdin_read, w_fd, real_stdin_fd, w_closes, fd0_got, fd0_eof>>
    /\ UNCHANGED notProxyVars

ProxyCloseW_Skips ==
    /\ px_pc = "close_w"
    /\ px_pc' = "close_r"
    /\ UNCHANGED <<data, stdin_read, pipe, w_fd, w_closes, real_stdin_fd, stopped,
                   fd0_got, fd0_eof>>
    /\ UNCHANGED notProxyVars

\* start_mcp.py:42-46: os.close(w_fd); an OSError of close is passed over
\* (the descriptor is released either way)
ProxyCloseW ==
    /\ px_pc = "close_w"
    /\ w_fd' = "closed"
    /\ w_closes' = w_closes + 1
    /\ px_pc' = "close_r"
    /\ UNCHANGED <<data, stdin_read, pipe, real_stdin_fd, stopped, fd0_got, fd0_eof>>
    /\ UNCHANGED notProxyVars

\* start_mcp.py:47-50: os.close(real_stdin_fd), and the thread ends
ProxyCloseR ==
    /\ px_pc = "close_r"
    /\ real_stdin_fd' = "closed"
    /\ px_pc' = "exit"
    /\ UNCHANGED <<data, stdin_read, pipe, w_fd, w_closes, stopped, fd0_got, fd0_eof>>
    /\ UNCHANGED notProxyVars

\* start_mcp.py:23-29, 64: the server reads fd 0, the read end of the pipe:
\* it gets buffered bytes, or EOF once the pipe is empty and its only write
\* end is closed
Fd0Read ==
    /\ px_pc # "idle"
    /\ ~fd0_eof
    /\ \/ /\ fd0_got < Len(pipe)
          /\ \E n \in (fd0_got + 1)..Len(pipe) : fd0_got' = n
          /\ UNCHANGED fd0_eof
       \/ /\ fd0_got = Len(pipe)
          /\ w_fd = "closed"
          /\ fd0_eof' = TRUE
          /\ UNCHANGED fd0_got
    /\ UNCHANGED <<px_pc, data, stdin_read, pipe, w_fd, real_stdin_fd, w_closes, stopped>>
    /\ UNCHANGED notProxyVars

\* the steps of the proxy thread
ProxyThread == ProxyRead \/ ProxyWrite \/ ProxyCloseW \/ ProxyCloseR

NextProxy ==
    \/ ProxyRead
    \/ ProxyWrite
    \/ ProxyCloseW
    \/ ProxyCloseR
    \/ Fd0Read

SpecProxy == InitProxy /\ [][NextProxy]_vars

\* the proxy thread, once started (start_mcp.py:52-53), keeps being
\* scheduled, and the server keeps reading fd 0
SpecProxyFair ==
    /\ InitProxy
    /\ [][NextProxy]_vars
    /\ WF_vars(ProxyThread)
    /\ WF_vars(Fd0Read)

----------------------------------------------------------------------------
(* An MCP tool behind requires_tidal_auth, make_tidal_request and the Flask
   route behind requires_tidal_auth (SpecTool) *)

Methods == {"GET", "POST", "DELETE", "get", "PUT", "PATCH"}

\* method.upper()
Upper(m) == IF m = "get" THEN "GET" ELSE m

\* what the auth status request of the wrapper may come to: a JSON answer
\* with authenticated true or false, a requests.RequestException, or any
\* other exception (an answer that is not a JSON object)
AuthStatusOutcomes ==
    {"authenticated", "not_authenticated", "RequestException", "Exception"}

\* what may happen to a request that make_tidal_request sends
NetOutcomes == {"delivered", "Timeout", "RequestException"}

\* status codes a route handler answers with (always a JSON body)
HandlerCodes == {200, 400, 404, 500}

\* answers that do not come from a wrapped route: the error pages of the
\* HTTP server, or whatever else answers at the URL
OtherAnswers ==
    {[code |-> c, body |-> b, by |-> "other"] :
        c \in {200, 404, 405, 500}, b \in {"html", "empty"}}

InitTool ==
    /\ AggIdle /\ BatchIdle /\ BoundIdle /\ TwiceIdle
    /\ ProxyIdle /\ RemoveIdle /\ RecIdle
    /\ method \in Methods
    /\ session_file_exists \in BOOLEAN
    /\ login_success \in BOOLEAN
    /\ tpc = "wrapper"
    /\ auth_status = "none"
    /\ response = NoResponse
    /\ requests_sent = 0
    /\ body_runs = 0
    /\ handler_runs = 0
    /\ vendor_calls = 0
    /\ request_result = "none"
    /\ tool_result = "none"

wrapper_FailsOpen(o) ==
    CASE o = "authenticated" -> [tpc |-> "body", result |-> "none"]
      [] o = "not_authenticated" -> [tpc |-> "returned", result |-> "error"]
      [] o = "RequestException" -> [tpc |-> "body", result |-> "none"]
      [] OTHER -> [tpc |-> "raised", result |-> "none"]

\* server.py:34-50: what the wrapper does on the outcome of the status
\* request: go on to the tool, return an error dict, or let the exception out
wrapper(o) ==
    CASE o = "authenticated" -> [tpc |-> "body", result |-> "none"]
      [] o = "not_authenticated" -> [tpc |-> "returned", result |-> "error"]
      [] o = "RequestException" -> [tpc |-> "returned", result |-> "error"]
      [] OTHER -> [tpc |-> "raised", result |-> "none"]

\* server.py:35-50: the wrapper asks /api/auth/status
WrapperCheck ==
    /\ tpc = "wrapper"
    /\ \E o \in AuthStatusOutcomes :
          /\ auth_status' = o
          /\ tpc' = wrapper(o).tpc
          /\ tool_result' = wrapper(o).result
    /\ UNCHANGED <<method, session_file_exists, login_success, response,
                   requests_sent, body_runs, handler_runs, vendor_calls,
                   request_result>>
    /\ UNCHANGED notToolVars

\* server.py:45, 62-74, 88-94: the tool body runs and calls
\* make_tidal_request, which sends the request unless the method is not
\* supported; a timeout or a network error becomes an error result, which
\* the tool returns
MakeRequest ==
    /\ tpc = "body"
    /\ body_runs' = body_runs + 1
    /\ IF Upper(method) \in {"GET", "POST", "DELETE"}
       THEN /\ requests_sent' = requests_sent + 1
            /\ \E n \in NetOutcomes :
                  IF n = "delivered"
                  THEN /\ tpc' = "sent"
                       /\ UNCHANGED <<response, request_result, tool_result>>
                  ELSE /\ response' = [code |-> 0, body |-> "none", by |-> n]
                       /\ request_result' = "error"
                       /\ tool_result' = "error"
                       /\ tpc' = "returned"
       ELSE /\ request_result' = "error"
            /\ tool_result' = "error"
            /\ tpc' = "returned"
            /\ UNCHANGED <<requests_sent, response>>
    /\ UNCHANGED <<method, session_file_exists, login_success, auth_status,
                   handler_runs, vendor_calls>>
    /\ UNCHANGED notToolVars

decorated_function_FileOnly(exists, login_ok) ==
    IF ~exists THEN [run |-> FALSE, code |-> 401]
    ELSE [run |-> TRUE, code |-> 0]

\* app.py:24-36: 401 without the session file or when the login fails,
\* the handler otherwise
decorated_function(exists, login_ok) ==
    IF ~exists THEN [run |-> FALSE, code |-> 401]
    ELSE IF ~login_ok THEN [run |-> FALSE, code |-> 401]
    ELSE [run |-> TRUE, code |-> 0]

\* app.py:16-37 and the route handler: the request reaches a wrapped route
FlaskRoute ==
    /\ tpc = "sent"
    /\ LET d == decorated_function(session_file_exists, login_success) IN
       IF d.run
       THEN /\ handler_runs' = handler_runs + 1
            /\ \E v \in 0..1 : vendor_calls' = vendor_calls + v
            /\ \E c \in HandlerCodes :
                  response' = [code |-> c, body |-> "json", by |-> "handler"]
       ELSE /\ response' = [code |-> d.code, body |-> "json", by |-> "decorator"]
            /\ UNCHANGED <<handler_runs, vendor_calls>>
    /\ tpc' = "answered"
    /\ UNCHANGED <<method, session_file_exists, login_success, auth_status,
                   requests_sent, body_runs, request_result, tool_result>>
    /\ UNCHANGED notToolVars

\* the request is answered, but not by a wrapped route
OtherAnswer ==
    /\ tpc = "sent"
    /\ response' \in OtherAnswers
    /\ tpc' = "answered"
    /\ UNCHANGED <<method, session_file_exists, login_success, auth_status,
                   requests_sent, body_runs, handler_runs, vendor_calls,
                   request_result, tool_result>>
    /\ UNCHANGED notToolVars

response_status_IgnoresCode(resp) ==
    IF resp.body = "json" THEN "success" ELSE "error"

\* server.py:76-94: the status of the result for a response; response.json()
\* raises on a body that is not JSON, which the except clauses turn into an
\* error result
response_status(resp) ==
    IF resp.code = 200
    THEN IF resp.body = "json" THEN "success" ELSE "error"
    ELSE IF resp.code = 401 THEN "error"
    ELSE IF resp.code = 404 THEN "error"
    ELSE "error"

\* server.py:76-94 and the end of the tool: the response is turned into the
\* result, which the tool and the wrapper return
MapResponse ==
    /\ tpc = "answered"
    /\ request_result' = response_status(response)
    /\ tool_result' = response_status(response)
    /\ tpc' = "returned"
    /\ UNCHANGED <<method, session_file_exists, login_success, auth_status,
                   response, requests_sent, body_runs, handler_runs, vendor_calls>>
    /\ UNCHANGED notToolVars

NextTool ==
    \/ WrapperCheck
    \/ MakeRequest
    \/ FlaskRoute
    \/ OtherAnswer
    \/ MapResponse

SpecTool == InitTool /\ [][NextTool]_vars

----------------------------------------------------------------------------
(* remove_tracks (SpecRemove) *)

\* longest playlist and longest list of track ids or indices
MaxTracks == 3
MaxRemove == 3

\* the tracks without the one at 0-based index i
RemoveAt(tracks, i) ==
    SubSeq(tracks, 1, i) \o SubSeq(tracks, i + 2, Len(tracks))

\* playlist.remove_by_index(index) at the vendor: the track at that index of
\* the playlist as it is now is removed, or the call raises (always when the
\* index is out of range)
remove_by_index(tracks, i) ==
    {[ok |-> FALSE, tracks |-> tracks, removed |-> 0]}
    \cup (IF 0 <= i /\ i < Len(tracks)
          THEN {[ok |-> TRUE, tracks |-> RemoveAt(tracks, i), removed |-> tracks[i + 1]]}
          ELSE {})

\* playlist.remove_by_id(track_id) at the vendor: the track with that id is
\* removed, or the call raises; for an id that is not in the playlist the
\* call raises or removes nothing
remove_by_id(tracks, t) ==
    {[ok |-> FALSE, tracks |-> tracks, removed |-> 0]}
    \cup (IF \E k \in 1..Len(tracks) : tracks[k] = t
          THEN LET k == CHOOSE j \in 1..Len(tracks) : tracks[j] = t IN
               {[ok |-> TRUE, tracks |-> RemoveAt(tracks, k - 1), removed |-> t]}
          ELSE {[ok |-> TRUE, tracks |-> tracks, removed |-> 0]})

sorted_KeepsOrder(sq) == sq

RECURSIVE sorted_reverse(_)
\* sorted(indices, reverse=True)
sorted_reverse(sq) ==
    IF sq = <<>> THEN <<>>
    ELSE LET m == CHOOSE x \in Range(sq) : \A y \in Range(sq) : y <= x
             k == CHOOSE j \in 1..Len(sq) : sq[j] = m
         IN  <<m>> \o sorted_reverse(SubSeq(sq, 1, k - 1) \o SubSeq(sq, k + 1, Len(sq)))

RemoveArgs ==
    {[is_list |-> TRUE, items |-> l] :
        l \in UNION {[1..n -> 0..MaxTracks] : n \in 0..MaxRemove}}
    \cup {[is_list |-> FALSE, items |-> <<>>]}

InitRemove ==
    /\ AggIdle /\ BatchIdle /\ BoundIdle /\ TwiceIdle
    /\ ProxyIdle /\ ToolIdle /\ RecIdle
    /\ rm_playlist \in {[found |-> TRUE, tracks |-> [k \in 1..n |-> k]] : n \in 0..MaxTracks}
                        \cup {[found |-> FALSE, tracks |-> <<>>]}
    /\ rm_original = rm_playlist.tracks
    /\ rm_mode \in {"track_ids", "indices", "none"}
    /\ rm_arg \in IF rm_mode = "none" THEN {[is_list |-> FALSE, items |-> <<>>]}
                   ELSE RemoveArgs
    /\ rm_todo = <<>>
    /\ rm_attempts = <<>>
    /\ removed_count = 0
    /\ rm_pc = "start"
    /\ rm_response = [code |-> 0, tracks_removed |-> 0]

\* playlists.py:171-180, 191-196, 203-211: the playlist lookup, the checks
\* of the argument and the list the loop will go through (an empty one is
\* answered at once)
RemoveStart ==
    /\ rm_pc = "start"
    /\ IF ~rm_playlist.found
       THEN /\ rm_response' = [code |-> 404, tracks_removed |-> 0]
            /\ rm_pc' = "done"
            /\ UNCHANGED rm_todo
       ELSE IF rm_mode = "none" \/ ~rm_arg.is_list
       THEN /\ rm_response' = [code |-> 400, tracks_removed |-> 0]
            /\ rm_pc' = "done"
            /\ UNCHANGED rm_todo
       ELSE /\ rm_todo' = IF rm_mode = "indices" THEN sorted_reverse(rm_arg.items)
                          ELSE rm_arg.items
            /\ IF rm_todo' = <<>>
               THEN /\ rm_response' = [code |-> 200, tracks_removed |-> removed_count]
                    /\ rm_pc' = "done"
               ELSE /\ rm_pc' = "loop"
                    /\ UNCHANGED rm_response
    /\ UNCHANGED <<rm_playlist, rm_original, rm_mode, rm_arg, rm_attempts, removed_count>>
    /\ UNCHANGED notRemoveVars

RemoveOne_StopsOnRaise ==
    /\ rm_pc = "loop"
    /\ LET x == Head(rm_todo) IN
       \E v \in IF rm_mode = "indices" THEN remove_by_index(rm_playlist.tracks, x)
                 ELSE remove_by_id(rm_playlist.tracks, x) :
          /\ rm_playlist' = [rm_playlist EXCEPT !.tracks = v.tracks]
          /\ removed_count' = IF v.ok THEN removed_count + 1 ELSE removed_count
          /\ rm_attempts' = Append(rm_attempts, [arg |-> x, ok |-> v.ok, removed |-> v.removed])
          /\ rm_todo' = Tail(rm_todo)
          /\ IF ~v.ok
             THEN /\ rm_response' = [code |-> 500, tracks_removed |-> 0]
                  /\ rm_pc' = "done"
             ELSE IF rm_todo' = <<>>
             THEN /\ rm_response' = [code |-> 200, tracks_removed |-> removed_count']
                  /\ rm_pc' = "done"
             ELSE UNCHANGED <<rm_pc, rm_response>>
    /\ UNCHANGED <<rm_original, rm_mode, rm_arg>>
    /\ UNCHANGED notRemoveVars

\* playlists.py:182-188 and 196-202: one iteration of the removal loop, a
\* raising call being logged and passed over; 206-211 after the last one
RemoveOne ==
    /\ rm_pc = "loop"
    /\ LET x == Head(rm_todo) IN
       \E v \in IF rm_mode = "indices" THEN remove_by_index(rm_playlist.tracks, x)
                 ELSE remove_by_id(rm_playlist.tracks, x) :
          /\ rm_playlist' = [rm_playlist EXCEPT !.tracks = v.tracks]
          /\ removed_count' = IF v.ok THEN removed_count + 1 ELSE removed_count
          /\ rm_attempts' = Append(rm_attempts, [arg |-> x, ok |-> v.ok, removed |-> v.removed])
          /\ rm_todo' = Tail(rm_todo)
          /\ IF rm_todo' = <<>>
             THEN /\ rm_response' = [code |-> 200, tracks_removed |-> removed_count']
                  /\ rm_pc' = "done"
             ELSE UNCHANGED <<rm_pc, rm_response>>
    /\ UNCHANGED <<rm_original, rm_mode, rm_arg>>
    /\ UNCHANGED notRemoveVars

NextRemove == RemoveStart \/ RemoveOne

SpecRemove == InitRemove /\ [][NextRemove]_vars

----------------------------------------------------------------------------
(* recommend_tracks (SpecRecommend) *)

\* most favorite tracks asked for, and most recommendations returned
MaxFavorites == 2
MaxRecs == 2

\* the track_ids argument: absent, a list, or a non-empty value of another type
RecArgs ==
    {[kind |-> "none", ids |-> <<>>],
     [kind |-> "list", ids |-> <<>>],
     [kind |-> "list", ids |-> <<"A">>],
     [kind |-> "list", ids |-> <<"A", "B">>],
     [kind |-> "other", ids |-> <<"A">>]}

\* the auth status request of recommend_tracks: an answer with authenticated
\* true or false, or an exception of requests.get or of .json()
RecAuthOutcomes == {"authenticated", "not_authenticated", "RequestException"}

\* what get_favorite_tracks returns: an error dict, or the answer of
\* /api/tracks with at most `limit` tracks
FavoriteOutcomes(limit) ==
    {[status |-> "error", tracks |-> <<>>]}
    \cup {[status |-> "ok", tracks |-> [k \in 1..n |-> [id |-> 100 + k]]] : n \in 0..limit}

\* what _get_tidal_recommendations returns: an error dict, or the answer of
\* the batch route
RecommendationOutcomes ==
    {[status |-> "error", recommendations |-> <<>>]}
    \cup {[status |-> "ok", recommendations |-> [k \in 1..n |-> 200 + k]] : n \in 0..MaxRecs}

\* track_ids and isinstance(track_ids, list) and len(track_ids) > 0
UsesGivenSeeds(arg) == arg.kind = "list" /\ arg.ids # <<>>

ErrorResult == [status |-> "error", seed_count |-> 0, seed_track_ids |-> <<>>,
                recommendations |-> <<>>]

InitRecommend ==
    /\ AggIdle /\ BatchIdle /\ BoundIdle /\ TwiceIdle
    /\ ProxyIdle /\ ToolIdle /\ RemoveIdle
    /\ rec_track_ids \in RecArgs
    /\ limit_from_favorite \in 1..MaxFavorites
    /\ rec_pc = "auth"
    /\ rec_auth = "none"
    /\ rec_backend = [status |-> "none", recommendations |-> <<>>]
    /\ favorites_fetched = 0
    /\ seed_track_ids = <<>>
    /\ rec_result = NoResult

\* tools/tracks.py:95-103: the auth status request, outside any try block
RecAuthCheck ==
    /\ rec_pc = "auth"
    /\ \E o \in RecAuthOutcomes :
          /\ rec_auth' = o
          /\ CASE o = "authenticated" ->
                    /\ rec_pc' = "seeds"
                    /\ UNCHANGED rec_result
               [] o = "not_authenticated" ->
                    /\ rec_pc' = "returned"
                    /\ rec_result' = ErrorResult
               [] OTHER ->
                    /\ rec_pc' = "raised"
                    /\ UNCHANGED rec_result
    /\ UNCHANGED <<rec_track_ids, limit_from_favorite, rec_backend,
                   favorites_fetched, seed_track_ids>>
    /\ UNCHANGED notRecVars

\* tools/tracks.py:105-136: the seeds are the given track_ids, or the ids of
\* the favorite tracks
RecSeeds ==
    /\ rec_pc = "seeds"
    /\ IF UsesGivenSeeds(rec_track_ids)
       THEN /\ seed_track_ids' = rec_track_ids.ids
            /\ rec_pc' = "recommend"
            /\ UNCHANGED <<favorites_fetched, rec_result>>
       ELSE /\ favorites_fetched' = favorites_fetched + 1
            /\ \E f \in FavoriteOutcomes(limit_from_favorite) :
                  IF f.status = "error" \/ f.tracks = <<>>
                  THEN /\ rec_result' = ErrorResult
                       /\ rec_pc' = "returned"
                       /\ UNCHANGED seed_track_ids
                  ELSE /\ seed_track_ids' = [k \in 1..Len(f.tracks) |-> f.tracks[k].id]
                       /\ rec_pc' = "recommend"
                       /\ UNCHANGED rec_result
    /\ UNCHANGED <<rec_track_ids, limit_from_favorite, rec_auth, rec_backend>>
    /\ UNCHANGED notRecVars

\* tools/tracks.py:138-170: the recommendations for the seeds and the result
RecRecommend ==
    /\ rec_pc = "recommend"
    /\ \E r \in RecommendationOutcomes :
          /\ rec_backend' = r
          /\ rec_result' =
                IF r.status = "error" \/ r.recommendations = <<>>
                THEN ErrorResult
                ELSE [status |-> "success",
                      seed_count |-> Len(seed_track_ids),
                      seed_track_ids |-> seed_track_ids,
                      recommendations |-> r.recommendations]
    /\ rec_pc' = "returned"
    /\ UNCHANGED <<rec_track_ids, limit_from_favorite, rec_auth,
                   favorites_fetched, seed_track_ids>>
    /\ UNCHANGED notRecVars

NextRecommend == RecAuthCheck \/ RecSeeds \/ RecRecommend

SpecRecommend == InitRecommend /\ [][NextRecommend]_vars

\* C13: for every integer limit and every max_n >= 1, bound_limit(limit,
\* max_n) = min(max(limit, 1), max_n): 1 when limit < 1, max_n when
\* limit > max_n, limit otherwise, so the result lies in [1, max_n]
\* (bound(0) = 1, bound(1000, 50) = 50, bound(25, 50) = 25).
C13_BoundIsClamp ==
    bound_call.pc = "returned" =>
        LET l == bound_call.limit
            m == bound_call.max_n
            v == bound_call.value
        IN  /\ v = Min(Max(l, 1), m)
            /\ l < 1 => v = 1
            /\ l > m => v = m
            /\ (1 <= l /\ l <= m) => v = l
            /\ 1 <= v /\ v <= m
            /\ (l = 0 /\ m = MaxLimit) => v = 1
            /\ (l = 1000 /\ m = MaxLimit) => v = MaxLimit
            /\ (l = 25 /\ m = MaxLimit) => v = 25

C13_Witness ==
    /\ bound_call.pc = "returned"
    /\ bound_call.limit = 1000
    /\ bound_call.max_n = MaxLimit
    /\ bound_call.value = MaxLimit

----------------------------------------------------------------------------
(* Properties of fetch_all_items (checked under Spec) *)

RECURSIVE Flatten(_)
\* the concatenation of the pages the successful calls returned, in call order
Flatten(ps) ==
    IF ps = <<>> THEN <<>>
    ELSE (IF Head(ps).ok THEN Head(ps).items ELSE <<>>) \o Flatten(Tail(ps))

\* the k-th response ends an uncapped pagination: an error or a short page
Terminal(k) == ~pages[k].ok \/ Len(pages[k].items) < calls[k].limit

\* C1: for every max_items = N >= 0 and every fetch function, whatever page
\* lengths it returns, the returned list has length <= N.
C1_CapNeverExceeded ==
    (pc = "done" /\ has_max) => Len(result) <= max_items

C6_RaiseStops ==
    \A k \in 1..Len(pages) :
        ~pages[k].ok =>
            /\ k = Len(calls)
            /\ pc = "done"
            /\ \A j \in 1..(k - 1) : pages[j].ok
            /\ result = Flatten(SubSeq(pages, 1, k - 1))

C6_Witness ==
    /\ pc = "done"
    /\ Len(pages) >= 3
    /\ ~pages[Len(pages)].ok
    /\ Len(result) >= 2

\* C7: with max_items absent, a finite never-failing source of S items that
\* serves min(limit, S - offset) items per call is returned whole, also when
\* S is an exact multiple of page_size.
C7_AllOfSource ==
    (pc = "done" /\ ~has_max /\ source.kind = "honest")
        => result = [i \in 1..source.size |-> i]

C7_Witness ==
    /\ pc = "done" /\ ~has_max /\ source.kind = "honest"
    /\ source.size >= 2
    /\ source.size % page_size = 0
    /\ Len(calls) = (source.size \div page_size) + 1
    /\ Len(result) = source.size

\* C8: once a fetch returns a page strictly shorter than the requested batch
\* size, the page is appended and no further fetch is issued, even when
\* max_items is given and not reached.
C8_ShortPageStops ==
    \A k \in 1..Len(pages) :
        (pages[k].ok /\ Len(pages[k].items) < calls[k].limit) =>
            /\ k = Len(calls)
            /\ pc = "done"
            /\ result = Flatten(SubSeq(pages, 1, k - 1)) \o pages[k].items

C8_Witness ==
    /\ pc = "done" /\ has_max
    /\ Len(pages) >= 2
    /\ pages[Len(pages)].ok
    /\ pages[Len(pages)].items # <<>>
    /\ Len(pages[Len(pages)].items) < calls[Len(pages)].limit
    /\ Len(result) < max_items

\* C9: with max_items absent the loop ends at the first response that is a
\* short page, an empty page or an error: if that is the k-th response,
\* exactly k calls are made and the result holds all items of the first k
\* pages (3 full pages of 100 and a page of 40 give 340 items after 4 calls).
C9_EndsAtFirstTerminal ==
    ~has_max =>
        /\ \A k \in 1..Len(pages) : Terminal(k) => (k = Len(calls) /\ pc = "done")
        /\ pc = "done" =>
              /\ Len(calls) >= 1
              /\ Terminal(Len(calls))
              /\ \A j \in 1..(Len(calls) - 1) : ~Terminal(j)
              /\ result = Flatten(pages)
        /\ (/\ pc = "done" /\ source.kind = "honest"
            /\ source.size = ExampleSize /\ page_size = DefaultPageSize)
              => (Len(calls) = 4 /\ Len(result) = ExampleSize)

C9_Witness ==
    /\ pc = "done" /\ ~has_max /\ source.kind = "honest"
    /\ source.size = ExampleSize /\ page_size = DefaultPageSize
    /\ Len(calls) = 4
    /\ Len(pages[4].items) = ExampleSize - 3 * DefaultPageSize
    /\ Len(result) = ExampleSize

C11_ZeroCapNoFetch ==
    (has_max /\ max_items = 0) =>
        /\ calls = <<>>
        /\ pages = <<>>
        /\ pc \in {"loop", "done"}
        /\ pc = "done" => result = <<>>

C11_Witness ==
    /\ has_max /\ max_items = 0
    /\ source.kind = "any"
    /\ pc = "done"
    /\ calls = <<>>
    /\ result = <<>>

\* C12: every limit a paginated fetch passes to the vendor client in a single
\* request has been clamped by bound_limit: no single vendor request of
\* get_user_tracks or get_tracks_from_playlist asks for more than 50 items.
C12_VendorLimitClamped ==
    route # "direct" =>
        \A k \in 1..Len(calls) : calls[k].limit <= MaxLimit

\* C18: the first fetch is called with offset 0, a fetch is issued only after
\* the previous one returned, and at every fetch call the offset argument is
\* the number of items accumulated so far.
C18_OffsetTracksAccumulator ==
    /\ Len(pages) = Len(calls)
    /\ Len(calls) >= 1 => calls[1].offset = 0
    /\ \A k \in 1..Len(calls) :
          calls[k].offset = Len(Flatten(SubSeq(pages, 1, k - 1)))
    /\ pc = "loop" => offset = Len(all_items)

C18_Witness ==
    /\ source.kind = "any"
    /\ Len(calls) >= 3
    /\ Len(pages[1].items) > calls[1].limit
    /\ calls[2].offset = Len(pages[1].items)
    /\ calls[3].offset = Len(pages[1].items) + Len(pages[2].items)
    /\ calls[3].offset > calls[2].offset

\* C19: every fetch call asks for limit = page_size when max_items is absent
\* and for min(page_size, max_items - accumulated count) otherwise; no fetch
\* is made with a limit <= 0 or a limit greater than page_size.
C19_LimitOfEveryCall ==
    \A k \in 1..Len(calls) :
        LET got == Len(Flatten(SubSeq(pages, 1, k - 1))) IN
        /\ calls[k].limit =
              IF has_max
              THEN (IF page_size <= max_items - got THEN page_size ELSE max_items - got)
              ELSE page_size
        /\ calls[k].limit >= 1
        /\ calls[k].limit <= page_size

C19_Witness ==
    /\ has_max
    /\ Len(calls) >= 2
    /\ calls[1].limit = page_size
    /\ calls[2].limit < page_size
    /\ calls[2].limit = max_items - Len(pages[1].items)

\* C20: the returned list is exactly the concatenation of the pages returned
\* by the successful fetch calls, in call order, each page in the order it
\* was delivered; nothing is dropped, duplicated or reordered.
C20_ResultIsConcatenation ==
    /\ pc \in {"loop", "done"} => all_items = Flatten(pages)
    /\ pc = "done" => result = Flatten(pages)

C20_Witness ==
    /\ pc = "done"
    /\ source.kind = "any"
    /\ Len(pages) >= 3
    /\ pages[Len(pages)].ok
    /\ pages[Len(pages)].items # <<>>
    /\ Len(pages[Len(pages)].items) < calls[Len(pages)].limit
    /\ result = pages[1].items \o pages[2].items \o pages[3].items

\* C30: when max_items = N is given (and page_size > 0) the loop terminates
\* for every fetch function, also one that never returns a short or empty
\* page and one that ignores the requested limit: each fetch call that does
\* not end the loop adds at least one item, so at most N fetch calls are made.
C30_AtMostNCalls ==
    has_max =>
        /\ page_size > 0
        /\ Len(calls) <= max_items
        /\ \A k \in 1..Len(calls) :
              (k < Len(calls) \/ pc = "loop")
                  => (pages[k].ok /\ Len(pages[k].items) >= 1)
        /\ pc = "loop" => Len(all_items) >= Len(calls)
        \* the loop is never cut short by the bound of the model
        /\ (pc = "loop" /\ max_items < MaxCalls) => ENABLED Next

C30_Witness ==
    /\ has_max /\ max_items >= 3
    /\ source.kind = "any"
    /\ pc = "done"
    /\ Len(calls) = max_items
    /\ \A k \in 1..Len(calls) :
          pages[k].ok /\ Len(pages[k].items) >= calls[k].limit

----------------------------------------------------------------------------
(* Properties of get_batch_track_recommendations (checked under SpecBatch) *)

\* the identifiers of a list of formatted tracks
Ids(recs) == {recs[k].id : k \in 1..Len(recs)}

\* the seeds whose fetch returned (did not raise)
Succeeded == {i \in DOMAIN fetched : futures[i].state = "finished" /\ fetched[i].ok}

RECURSIVE SumLen(_)
\* the total length of the lists the seeds in I returned
SumLen(I) ==
    IF I = {} THEN 0
    ELSE LET i == CHOOSE x \in I : TRUE IN Len(fetched[i].items) + SumLen(I \ {i})

\* C3: with remove_duplicates true, under every completion order the merged
\* output holds each identifier at most once, and its identifiers are the
\* union of the identifiers returned by all seed fetches ({1,2,3} and {2,3,4}
\* give each of 1,2,3,4 exactly once).
C3_DedupUnion ==
    remove_duplicates =>
        /\ \A j, k \in 1..Len(all_recommendations) :
              all_recommendations[j].id = all_recommendations[k].id => j = k
        /\ (bpc = "done" /\ bstatus = 200) =>
              Ids(all_recommendations) = UNION {Range(fetched[i].items) : i \in Succeeded}

C3_Witness ==
    /\ remove_duplicates /\ bpc = "done" /\ bstatus = 200
    /\ Len(seeds) = 2
    /\ fetched[1] = [ok |-> TRUE, items |-> <<1, 2, 3>>]
    /\ fetched[2] = [ok |-> TRUE, items |-> <<2, 3, 4>>]
    /\ order = <<2, 1>>
    /\ Len(all_recommendations) = 4
    /\ Ids(all_recommendations) = {1, 2, 3, 4}

\* C4: for a valid non-empty seed list, whichever seed fetches raise, the
\* answer is a success (200) whose output is exactly the (deduplicated) items
\* of the seeds whose fetch succeeded; a failing seed contributes an empty
\* result and no exception of a task reaches the caller.
C4_FaultTolerant ==
    /\ \A i \in DOMAIN futures :
          (futures[i].state = "finished" /\ ~fetched[i].ok)
              => (~futures[i].exc /\ futures[i].value = <<>>)
    /\ (bpc = "done" /\ track_ids.is_list /\ seeds # <<>>) =>
          /\ bstatus = 200
          /\ Ids(all_recommendations) = UNION {Range(fetched[i].items) : i \in Succeeded}
          /\ \A k \in 1..Len(all_recommendations) :
                \E i \in Succeeded :
                    /\ all_recommendations[k].source_track_id = seeds[i]
                    /\ all_recommendations[k].id \in Range(fetched[i].items)
          /\ ~remove_duplicates => Len(all_recommendations) = SumLen(Succeeded)

C4_Witness ==
    /\ bpc = "done" /\ bstatus = 200
    /\ Len(seeds) = 2
    /\ fetched[1] = [ok |-> TRUE, items |-> <<1, 2, 3>>]
    /\ fetched[2] = [ok |-> FALSE, items |-> <<4, 5>>]
    /\ order = <<2, 1>>
    /\ Ids(all_recommendations) = {1, 2, 3}

\* the concatenation, in merge order, of the results of the first n merged tasks
RECURSIVE CatMerged(_)
CatMerged(n) ==
    IF n = 0 THEN <<>> ELSE CatMerged(n - 1) \o futures[order[n]].value

\* the items of a list without the later copies of an identifier
RECURSIVE FirstCopies(_)
FirstCopies(recs) ==
    IF recs = <<>> THEN <<>>
    ELSE LET front == SubSeq(recs, 1, Len(recs) - 1)
             last == recs[Len(recs)]
         IN  IF \E j \in 1..Len(front) : front[j].id = last.id
             THEN FirstCopies(front)
             ELSE Append(FirstCopies(front), last)

\* position of seed index i in a sequence of seed indexes (0 when absent)
PosIn(sq, i) == IF \E k \in 1..Len(sq) : sq[k] = i
                THEN CHOOSE k \in 1..Len(sq) : sq[k] = i ELSE 0

\* number of items of a list with identifier x
CountId(recs, x) == Cardinality({k \in 1..Len(recs) : recs[k].id = x})

\* C14 (as claimed): the tasks are merged in task completion order, so the
\* surviving copy of an identifier is the one of the earliest-completing task.
C14_MergedInCompletionOrder ==
    \A k \in 1..Len(order) : order[k] = completed[k]

\* C14 (amended): the output is the concatenation, in the order as_completed
\* hands the tasks over, of each task's items in the task's own order, minus
\* the dropped duplicates. That order is not the submission order; it is the
\* completion order for the tasks that finish after as_completed was called,
\* and unspecified among the tasks that had finished before. With
\* remove_duplicates the surviving copy of an identifier is the one of the
\* earliest-merged task.
C14_MergeOrderOutput ==
    bstatus # 500 =>
        /\ all_recommendations =
              IF remove_duplicates THEN FirstCopies(CatMerged(Len(order)))
              ELSE CatMerged(Len(order))
        /\ \A a, b \in 1..Len(order) :
              (a < b /\ order[b] \in snapshot) => order[a] \in snapshot
        /\ \A a, b \in 1..Len(order) :
              (a < b /\ order[a] \notin snapshot)
                  => PosIn(completed, order[a]) < PosIn(completed, order[b])
        /\ \A k \in 1..Len(order) : PosIn(completed, order[k]) > 0
        /\ remove_duplicates =>
              \A k \in 1..Len(all_recommendations) :
                  \E a \in 1..Len(order) :
                      /\ all_recommendations[k].source_track_id = seeds[order[a]]
                      /\ all_recommendations[k].id \in Ids(futures[order[a]].value)
                      /\ \A b \in 1..(a - 1) :
                            all_recommendations[k].id \notin Ids(futures[order[b]].value)

C14_Witness ==
    /\ bpc = "done" /\ bstatus = 200 /\ remove_duplicates
    /\ seeds = <<"A", "B">>
    /\ fetched[1] = [ok |-> TRUE, items |-> <<1, 2, 3>>]
    /\ fetched[2] = [ok |-> TRUE, items |-> <<2, 3, 4>>]
    /\ completed = <<2, 1>>
    /\ snapshot = {}
    /\ order = <<2, 1>>
    /\ all_recommendations =
          FormatAll(<<2, 3, 4>>, "B") \o FormatAll(<<1>>, "A")

\* C15: the seen-identifier set and the output list are written only by the
\* merging loop, and only with the result of a task that has already
\* completed; no seed task reads or writes them.
C15_SingleWriter ==
    [][(all_recommendations' # all_recommendations
            \/ seen_track_ids' # seen_track_ids)
        => /\ Len(order') = Len(order) + 1
           /\ futures[order'[Len(order')]].state = "finished"
           /\ order'[Len(order')] \in Range(completed)
           /\ futures' = futures
           /\ completed' = completed]_vars

C15_Witness ==
    /\ bpc = "merging"
    /\ Len(order) = 1
    /\ seen_track_ids # {}
    /\ \E i \in DOMAIN futures :
          /\ i \notin Range(order)
          /\ futures[i].state = "finished"
          /\ Ids(futures[i].value) \ seen_track_ids # {}

\* C16: exactly one task is launched per element of the seed list, with
\* len(seeds) workers, so that no task waits for another; no task is ever
\* cancelled; the result is produced only after every launched task has
\* completed (or failed locally) and its result has been merged.
C16_AllTasksRunAndMerge ==
    /\ bpc \in {"submitted", "merging"} => DOMAIN futures = 1..Len(seeds)
    /\ \A i \in DOMAIN futures :
          /\ futures[i].state \in {"pending", "running", "finished"}
          /\ futures[i].state = "finished" <=> i \in Range(completed)
          /\ (futures[i].state = "pending"
                /\ \A j \in 1..(i - 1) : futures[j].state # "pending")
                => ENABLED TaskStart(i)
    /\ (bpc = "done" /\ track_ids.is_list /\ seeds # <<>>) =>
          /\ DOMAIN futures = 1..Len(seeds)
          /\ \A i \in DOMAIN futures :
                futures[i].state = "finished" /\ i \in Range(order)
          /\ Len(order) = Len(seeds)

C16_Witness ==
    /\ bpc = "done" /\ bstatus = 200
    /\ Len(seeds) = 2
    /\ seeds[1] = seeds[2]
    /\ Len(futures) = 2
    /\ ~fetched[1].ok /\ fetched[2].ok
    /\ Range(order) = {1, 2}

\* C17: in the merge an item is dropped if and only if remove_duplicates is
\* true and its identifier was already emitted in this batch; with
\* remove_duplicates false every item of every completed task is appended,
\* so the output length is the sum of the lengths of all seed results.
C17_DropIffSeenDuplicate ==
    bstatus # 500 =>
        LET cat == CatMerged(Len(order)) IN
        /\ Ids(all_recommendations) = Ids(cat)
        /\ seen_track_ids = Ids(all_recommendations)
        /\ \A x \in Ids(cat) :
              CountId(all_recommendations, x) =
                  IF remove_duplicates THEN 1 ELSE CountId(cat, x)
        /\ ~remove_duplicates => Len(all_recommendations) = Len(cat)
        /\ (~remove_duplicates /\ bpc = "done" /\ bstatus = 200)
              => Len(all_recommendations) = SumLen(Succeeded)

C17_Witness ==
    /\ bpc = "done" /\ bstatus = 200 /\ ~remove_duplicates
    /\ Len(seeds) = 2
    /\ fetched[1] = [ok |-> TRUE, items |-> <<1, 2, 3>>]
    /\ fetched[2] = [ok |-> TRUE, items |-> <<2, 3, 4>>]
    /\ Len(all_recommendations) = 6
    /\ CountId(all_recommendations, 2) = 2

\* C5: an invalid seed sequence, a non-list value as well as an empty list,
\* is answered with the caller-input error 400 (not 500), before any seed
\* task is launched.
C5_InvalidSeedsAre400 ==
    (bpc = "done" /\ (~track_ids.is_list \/ seeds = <<>>))
        => (bstatus = 400 /\ futures = <<>>)

----------------------------------------------------------------------------
(* Properties of repeated invocations (checked under SpecTwice) *)

\* C21: neither the aggregator nor the collector keeps state between
\* invocations: the accumulator, the offset and the seen-identifier set are
\* fresh at every call, so an identifier emitted by one batch call is not
\* suppressed in a later batch call, and a second fetch_all_items call starts
\* again at offset 0 with an empty result.
C21_FreshAtEveryCall ==
    invocation > 1 =>
        /\ pc \in {"loop", "done"} =>
              /\ all_items = Flatten(pages)
              /\ calls = <<>> => (all_items = <<>> /\ offset = 0)
              /\ calls # <<>> => calls[1].offset = 0
              /\ pc = "done" => result = Flatten(pages)
        /\ bpc = "start" => (all_recommendations = <<>> /\ seen_track_ids = {})
        /\ (bpc \in {"submitted", "merging", "done"} /\ bstatus # 500) =>
              /\ seen_track_ids = Ids(all_recommendations)
              /\ Ids(all_recommendations) = Ids(CatMerged(Len(order)))
              /\ ~remove_duplicates =>
                    all_recommendations = CatMerged(Len(order))

C21_Witness ==
    /\ invocation = 2
    /\ bpc = "done" /\ bstatus = 200 /\ remove_duplicates
    /\ Ids(previous) = {1, 2, 3}
    /\ Ids(all_recommendations) = {1, 2, 3, 4}

----------------------------------------------------------------------------
(* Properties of the stdin proxy (checked under SpecProxy, SpecProxyFair) *)

\* sq is a prefix of full
IsPrefix(sq, full) ==
    Len(sq) <= Len(full) /\ sq = SubSeq(full, 1, Len(sq))

\* C22: once a read of the real stdin returns EOF (or any read or write
\* raises OSError) the proxy thread eventually closes the write end of the
\* internal pipe, closes it exactly once, and writes nothing to the pipe
\* afterwards, so the reader of fd 0 sees EOF.
C22_ClosesWriteEndOnce ==
    /\ [](w_closes <= 1 /\ (w_fd = "closed" <=> w_closes = 1))
    /\ [][(stopped # "no" \/ w_fd = "closed") => pipe' = pipe]_vars
    /\ [][w_fd = "closed" => w_fd' = "closed"]_vars
    /\ (stopped # "no") ~> (w_fd = "closed" /\ w_closes = 1)
    /\ (stopped # "no") ~> (fd0_eof /\ fd0_got = Len(pipe))

C22_Witness ==
    /\ stopped = "oserror"
    /\ px_pc = "exit"
    /\ w_fd = "closed" /\ w_closes = 1
    /\ pipe # <<>>
    /\ Len(pipe) < Len(stdin_read)
    /\ fd0_eof

\* C23: until the real stdin reaches EOF the proxy forwards every chunk it
\* reads to the internal pipe exactly once and in the order read: the byte
\* sequence written to the pipe is always a prefix of the byte sequence read
\* from the real stdin, and equals it when the proxy stops on EOF.
C23_ForwardsInOrder ==
    /\ IsPrefix(pipe, stdin_read)
    /\ px_pc = "write" => stdin_read = pipe \o data
    /\ px_pc = "read" => pipe = stdin_read
    /\ stopped = "eof" => pipe = stdin_read
    /\ fd0_got <= Len(pipe)

C23_Witness ==
    /\ stopped = "eof"
    /\ px_pc = "exit"
    /\ Len(stdin_read) >= 3
    /\ Range(stdin_read) = Bytes
    /\ pipe = stdin_read
    /\ fd0_eof /\ fd0_got = Len(pipe)

----------------------------------------------------------------------------
(* Properties of the authentication wrappers and of make_tidal_request
   (checked under SpecTool) *)

C25_ToolOnlyWhenAuthenticated ==
    /\ body_runs > 0 => auth_status = "authenticated"
    /\ body_runs <= 1
    /\ requests_sent <= body_runs
    /\ auth_status \in {"not_authenticated", "RequestException"} =>
          /\ tpc = "returned"
          /\ tool_result = "error"
          /\ body_runs = 0
          /\ requests_sent = 0
          /\ handler_runs = 0

C25_Witness ==
    /\ auth_status = "RequestException"
    /\ tpc = "returned"
    /\ tool_result = "error"
    /\ body_runs = 0

\* the request of make_tidal_request was not answered: timeout or network error
NotAnswered == response.by \in {"Timeout", "RequestException"}

\* C26 (as claimed): make_tidal_request never raises; it returns status
\* success if and only if the backend answered HTTP 200; 401, 404, any other
\* status, a timeout and a network error give status error, and a method
\* other than GET, POST or DELETE gives status error without any request.
C26_SuccessIffStatus200 ==
    /\ tpc = "raised" => body_runs = 0
    /\ (tpc = "returned" /\ body_runs > 0) =>
          /\ request_result \in {"success", "error"}
          /\ request_result = "success" <=> response.code = 200
          /\ NotAnswered => request_result = "error"
          /\ Upper(method) \notin {"GET", "POST", "DELETE"} =>
                (request_result = "error" /\ requests_sent = 0)

\* C26 (amended): make_tidal_request never raises; it returns status success
\* if and only if the backend answered HTTP 200 with a body that parses as
\* JSON; a 200 whose body does not parse, 401, 404, any other status, a
\* timeout and a network error give status error, and a method other than
\* GET, POST or DELETE (in any letter case) gives status error without any
\* request being sent.
C26_SuccessIff200WithJson ==
    /\ tpc = "raised" => body_runs = 0
    /\ (tpc = "returned" /\ body_runs > 0) =>
          /\ request_result \in {"success", "error"}
          /\ request_result = "success" <=>
                (response.code = 200 /\ response.body = "json")
          /\ NotAnswered => request_result = "error"
          /\ response.code \in {401, 404, 400, 405, 500} => request_result = "error"
          /\ Upper(method) \notin {"GET", "POST", "DELETE"} =>
                (request_result = "error" /\ requests_sent = 0
                    /\ response = NoResponse)
          /\ Upper(method) \in {"GET", "POST", "DELETE"} => requests_sent = 1

C26_Witness ==
    /\ tpc = "returned"
    /\ method = "get"
    /\ requests_sent = 1
    /\ response = [code |-> 200, body |-> "json", by |-> "handler"]
    /\ request_result = "success"

----------------------------------------------------------------------------
(* Properties of remove_tracks (checked under SpecRemove) *)

\* the indices of the removal calls that did not raise
RemovedAt == {rm_attempts[k].arg : k \in {j \in 1..Len(rm_attempts) : rm_attempts[j].ok}}

\* the 0-based positions P deleted from a list
Without(tracks, P) ==
    LET keep == {k \in 1..Len(tracks) : (k - 1) \notin P}
        F[k \in 0..Len(tracks)] ==
            IF k = 0 THEN <<>>
            ELSE IF k \in keep THEN Append(F[k - 1], tracks[k]) ELSE F[k - 1]
    IN  F[Len(tracks)]

\* number of calls that did not raise
Removals == Cardinality({k \in 1..Len(rm_attempts) : rm_attempts[k].ok})

\* number of times x occurs in a list
Occurrences(sq, x) == Cardinality({k \in 1..Len(sq) : sq[k] = x})

\* C27: remove_tracks given a list of distinct in-range indices issues the
\* remove_by_index calls in descending index order, so that each call removes
\* the track that stood at that index in the original playlist; the
\* resulting playlist is the original with exactly the listed positions
\* deleted and all other tracks in their original relative order.
C27_DescendingIndexRemoval ==
    (/\ rm_playlist.found /\ rm_mode = "indices" /\ rm_arg.is_list
     /\ \A j, k \in 1..Len(rm_arg.items) : rm_arg.items[j] = rm_arg.items[k] => j = k
     /\ \A k \in 1..Len(rm_arg.items) : rm_arg.items[k] < Len(rm_original)) =>
        /\ \A k \in 1..Len(rm_attempts) : rm_attempts[k].arg \in Range(rm_arg.items)
        /\ \A j, k \in 1..Len(rm_attempts) :
              j < k => rm_attempts[j].arg > rm_attempts[k].arg
        /\ \A k \in 1..Len(rm_attempts) :
              rm_attempts[k].ok =>
                  rm_attempts[k].removed = rm_original[rm_attempts[k].arg + 1]
        /\ rm_playlist.tracks = Without(rm_original, RemovedAt)
        /\ (rm_pc = "done" /\ Removals = Len(rm_arg.items)) =>
              rm_playlist.tracks = Without(rm_original, Range(rm_arg.items))

C27_Witness ==
    /\ rm_pc = "done" /\ rm_mode = "indices"
    /\ rm_original = <<1, 2, 3>>
    /\ rm_arg.items = <<0, 2>>
    /\ Len(rm_attempts) = 2
    /\ rm_attempts[1] = [arg |-> 2, ok |-> TRUE, removed |-> 3]
    /\ rm_attempts[2] = [arg |-> 0, ok |-> TRUE, removed |-> 1]
    /\ rm_playlist.tracks = <<2>>

\* C29: a removal call that raises does not stop the remaining removals and
\* does not turn the response into an error: every listed track id (or
\* index) is attempted exactly once, and tracks_removed equals the number of
\* remove_by_id / remove_by_index calls that did not raise, hence
\* 0 <= tracks_removed <= length of the input list.
C29_RaisingRemovalIsSkipped ==
    (rm_playlist.found /\ rm_mode # "none" /\ rm_arg.is_list) =>
        /\ rm_pc \in {"loop", "done"} =>
              /\ Len(rm_attempts) + Len(rm_todo) = Len(rm_arg.items)
              /\ removed_count = Removals
              /\ \A x \in Range(rm_arg.items) :
                    Occurrences([k \in 1..Len(rm_attempts) |-> rm_attempts[k].arg]
                                    \o rm_todo, x)
                        = Occurrences(rm_arg.items, x)
              /\ rm_mode = "track_ids" =>
                    [k \in 1..Len(rm_attempts) |-> rm_attempts[k].arg] \o rm_todo
                        = rm_arg.items
        /\ rm_pc = "done" =>
              /\ rm_todo = <<>>
              /\ Len(rm_attempts) = Len(rm_arg.items)
              /\ rm_response.code = 200
              /\ rm_response.tracks_removed = Removals
              /\ 0 <= rm_response.tracks_removed
              /\ rm_response.tracks_removed <= Len(rm_arg.items)

C29_Witness ==
    /\ rm_pc = "done" /\ rm_mode = "track_ids"
    /\ Len(rm_arg.items) = 3
    /\ Len(rm_attempts) = 3
    /\ ~rm_attempts[1].ok
    /\ rm_attempts[2].ok /\ rm_attempts[3].ok
    /\ rm_response = [code |-> 200, tracks_removed |-> 2]

----------------------------------------------------------------------------
(* Properties of recommend_tracks (checked under SpecRecommend) *)

\* C28: recommend_tracks uses the given track_ids as seeds, without fetching
\* favorites, when track_ids is a non-empty list, and otherwise uses the ids
\* of the user's favorite tracks; it returns status success only when the
\* user is authenticated, the seed list is non-empty and the backend returned
\* at least one recommendation, and then seed_count equals the length of
\* seed_track_ids; every other path returns status error.
C28_SuccessOrErrorStatus ==
    /\ rec_pc \in {"recommend", "returned"} /\ rec_auth = "authenticated" =>
          IF UsesGivenSeeds(rec_track_ids)
          THEN favorites_fetched = 0
               /\ (rec_pc = "recommend" => seed_track_ids = rec_track_ids.ids)
          ELSE favorites_fetched = 1
    /\ rec_result.status = "success" =>
          /\ rec_auth = "authenticated"
          /\ seed_track_ids # <<>>
          /\ rec_backend.status = "ok"
          /\ rec_backend.recommendations # <<>>
          /\ rec_result.recommendations = rec_backend.recommendations
          /\ rec_result.seed_track_ids = seed_track_ids
          /\ rec_result.seed_count = Len(rec_result.seed_track_ids)
    \* every call ends by returning a result with status success or error
    /\ rec_pc \notin {"auth", "seeds", "recommend"} =>
          /\ rec_pc = "returned"
          /\ rec_result.status \in {"success", "error"}
          /\ rec_result.status = "success" <=>
                (/\ rec_auth = "authenticated"
                 /\ seed_track_ids # <<>>
                 /\ rec_backend.recommendations # <<>>)

====
